---- MODULE Spec2Model ----
(***************************************************************************)
(* Model of the job registry of backend/main.py: the task store `tasks`,   *)
(* the URL reservations `processing_urls`, the registry of running         *)
(* coroutines `active_tasks`, the SSE subscriber table `sse_connections`,  *)
(* the persisted snapshot tasks.json and the other entries of TEMP_DIR.    *)
(* A further specification adds the restart of the process on the same     *)
(* TEMP_DIR, between two runs or inside a write of tasks.json.             *)
(*                                                                         *)
(* Everything runs on one asyncio event loop, so a handler or coroutine    *)
(* runs without interruption from one suspending await to the next.  The   *)
(* awaits of process_video_task that suspend are asyncio.sleep, the two    *)
(* external calls (which await asyncio.to_thread) and the aiofiles write;  *)
(* `await broadcast_task_update` only awaits put() on unbounded queues,    *)
(* which never suspends.  Each action below is one such uninterrupted run. *)
(*                                                                         *)
(* Task ids are uuid4 strings in the code; the model draws them from a     *)
(* counter, so ids are fresh and the insertion order of the dict `tasks`   *)
(* (its iteration order) is the order of the ids.                          *)
(***************************************************************************)
EXTENDS Integers, Sequences, FiniteSets, TLC

VARIABLES
    tasks,            \* dict task_id -> task record
    processing_urls,  \* set of URLs being processed
    active_tasks,     \* keys of the dict task_id -> asyncio.Task
    pc,               \* each process_video_task coroutine: where it is
                      \* suspended and its url argument
    must_cancel,      \* tasks on which Task.cancel() was called
    sse_connections,  \* dict task_id -> list of subscriber queues
    subs,             \* the task_stream requests: state, queue, events sent
    tasks_file,       \* content of TEMP_DIR/tasks.json
    temp_dir,         \* the other entries of TEMP_DIR
    disk,             \* whether a write to TEMP_DIR succeeds now
    next_id           \* number of uuids drawn so far, plus one

vars == <<tasks, processing_urls, active_tasks, pc, must_cancel,
          sse_connections, subs, tasks_file, temp_dir, disk, next_id>>

\* ---------------------------------------------------------------- bounds
MaxJobs == 2
MaxSubs == 1
MaxHeartbeats == 1
RegistryMaxJobs == 3

Urls == {"u1", "u2"}

\* ---------------------------------------------------------------- values
None == "None"
NotFound == 404
Ok == 200
Heartbeat == [type |-> "heartbeat"]
Terminal == {"completed", "error"}

\* dict.update: the keys of fields overwrite or extend those of d
Update(d, fields) == fields @@ d

\* del d[k]
Del(d, k) == [x \in (DOMAIN d) \ {k} |-> d[x]]

\* the elements of a list
Range(s) == {s[i] : i \in DOMAIN s}

\* list.remove(x): drops the first occurrence of x
Remove(s, x) ==
    LET first == CHOOSE i \in DOMAIN s : s[i] = x /\ \A j \in 1..(i-1) : s[j] # x
    IN  [i \in 1..(Len(s) - 1) |-> IF i < first THEN s[i] ELSE s[i + 1]]

\* the record process_video stores for a new task
NewTask(url) ==
    [status |-> "processing", progress |-> 0,
     message |-> "Starting processing...",
     script |-> None, error |-> None, url |-> url]

\* the partial updates of process_video_task, in the order of the code
StageDownloading ==
    [status |-> "processing", progress |-> 10, message |-> "Downloading video..."]
StageParsing == [progress |-> 15, message |-> "Parsing video info..."]
StageDownloaded ==
    [progress |-> 35, message |-> "Video downloaded, preparing transcription..."]
StageTranscribing == [progress |-> 40, message |-> "Transcribing audio..."]
StagePreparing == [progress |-> 55, message |-> "Preparing transcript..."]
\* StageFinalizing with the progress of a completed job
StageFinalizing_full == [progress |-> 100, message |-> "Finalizing results..."]
StageFinalizing == [progress |-> 85, message |-> "Finalizing results..."]
\* TaskResult without the transcript
TaskResult_no_script(id) ==
    [status |-> "completed", progress |-> 100,
     message |-> "Processing completed!",
     video_title |-> "title",
     script_path |-> "title.txt", short_id |-> id, safe_title |-> "title"]

TaskResult(id) ==
    [status |-> "completed", progress |-> 100,
     message |-> "Processing completed!",
     video_title |-> "title", script |-> "transcript",
     script_path |-> "title.txt", short_id |-> id, safe_title |-> "title"]

\* str(e) of the exception each suspended external call can raise
ErrorText(at) ==
    CASE at = "download"   -> "Video download failed"
      [] at = "transcribe" -> "Transcription failed"
      [] at = "write"      -> "write failed"
\* TaskError with the progress reset by the handler
TaskError_resets_progress(at) ==
    [status |-> "error", progress |-> 0, error |-> ErrorText(at),
     message |-> "Processing failed: " \o ErrorText(at)]

TaskError(at) ==
    [status |-> "error", error |-> ErrorText(at),
     message |-> "Processing failed: " \o ErrorText(at)]

\* json.dump of the task dict: the keys (uuid strings) and the string and
\* integer values are written as they are, None is written as null
NullableFields == {"script", "error"}
json_dump(tasks_data) ==
    [id \in DOMAIN tasks_data |->
        [k \in DOMAIN tasks_data[id] |->
            IF k \in NullableFields /\ tasks_data[id][k] = None
            THEN "null" ELSE tasks_data[id][k]]]

\* json.load: null is read as None
json_load(text) ==
    [id \in DOMAIN text |->
        [k \in DOMAIN text[id] |->
            IF k \in NullableFields /\ text[id][k] = "null"
            THEN None ELSE text[id][k]]]

\* TASKS_FILE does not exist
NoFile == [state |-> "absent"]

\* TASKS_FILE after open(TASKS_FILE, 'w') truncated it and before json.dump
\* has written and flushed the whole document: empty or a proper prefix of
\* a JSON object, which json.load rejects
Truncated == [state |-> "partial"]

\* save_tasks: json.dump of the whole dict replaces the file content
save_tasks(tasks_data) == [state |-> "written", text |-> json_dump(tasks_data)]

\* what save_tasks leaves in TASKS_FILE: the new document, or, when the
\* write raises (the exception is caught and logged), the file as it was
\* if open() failed and a truncated file if json.dump failed
save_tasks_outcomes(tasks_data) ==
    IF disk = "ok"
    THEN {save_tasks(tasks_data)}
    ELSE {tasks_file, Truncated}

\* load_tasks: the dict of a file that exists and parses, else {}
load_tasks(file) ==
    IF file.state = "written" THEN json_load(file.text) ELSE <<>>

\* broadcast_task_update: json.dumps(task_data) is put on every queue
\* registered for task_id; the dump is a copy of the record as it is now
broadcast_queues(sb, conns, task_id, task_data) ==
    IF task_id \in DOMAIN conns
    THEN [s \in DOMAIN sb |->
            IF s \in Range(conns[task_id])
            THEN [sb[s] EXCEPT !.queue = Append(@, task_data)]
            ELSE sb[s]]
    ELSE sb

\* broadcast_task_update: a task_id left with an empty list is dropped
\* (put on an unbounded queue never fails, so no queue is removed here)
broadcast_conns(conns, task_id) ==
    IF task_id \in DOMAIN conns /\ conns[task_id] = <<>>
    THEN Del(conns, task_id)
    ELSE conns

\* ---------------------------------------------------------------- Init
Init ==
    /\ tasks = load_tasks(NoFile)
    /\ processing_urls = {}
    /\ active_tasks = {}
    /\ pc = <<>>
    /\ must_cancel = {}
    /\ sse_connections = <<>>
    /\ subs = <<>>
    /\ tasks_file = NoFile
    /\ temp_dir = {}
    /\ disk = "ok"
    /\ next_id = 1

\* ------------------------------------------------------- POST process-video
\* the for loop over tasks.items(): the first task, in insertion order,
\* whose url equals the submitted one
FirstWithUrl(url) ==
    LET match == {tid \in DOMAIN tasks : tasks[tid].url = url}
    IN  IF match = {} THEN 0
        ELSE CHOOSE tid \in match : \A other \in match : tid <= other

\* the branch of process_video that returns the id of an existing task
AlreadyProcessing(url) == url \in processing_urls /\ FirstWithUrl(url) # 0

\* the JSON body process_video returns when called in the current state
process_video_response(url) ==
    IF AlreadyProcessing(url)
    THEN [task_id |-> FirstWithUrl(url),
          message |-> "This video is already being processed. Please wait..."]
    ELSE [task_id |-> next_id, message |-> "Task created. Processing..."]

\* cleanup_temp_dir_if_idle without the test of active_tasks
cleanup_temp_dir_always(entries) == {}

\* cleanup_temp_dir_if_idle: with a task entry present nothing is touched;
\* else every entry of TEMP_DIR other than tasks.json is removed (tasks.json
\* is the variable tasks_file, which the function leaves alone)
cleanup_temp_dir_if_idle(entries) ==
    IF active_tasks # {} THEN entries ELSE {}

\* The handler first calls cleanup_temp_dir_if_idle.
process_video(url, maxJobs) ==
    IF AlreadyProcessing(url)
    THEN /\ temp_dir' = cleanup_temp_dir_if_idle(temp_dir)
         /\ UNCHANGED <<tasks, processing_urls, active_tasks, pc, must_cancel,
                        sse_connections, subs, tasks_file, next_id, disk>>
    ELSE /\ next_id <= maxJobs
         /\ temp_dir' = cleanup_temp_dir_if_idle(temp_dir)
         /\ LET task_id == process_video_response(url).task_id IN
            /\ processing_urls' = processing_urls \cup {url}
            /\ tasks' = (task_id :> NewTask(url)) @@ tasks
            /\ tasks_file' \in save_tasks_outcomes(tasks')
            /\ active_tasks' = active_tasks \cup {task_id}
            /\ pc' = (task_id :> [at |-> "start", url |-> url]) @@ pc
            /\ next_id' = next_id + 1
         /\ UNCHANGED <<must_cancel, sse_connections, subs, disk>>

\* ------------------------------------------------------ process_video_task
\* the entries of TEMP_DIR a job makes: the audio file
\* audio_<uuid8>.m4a that download_and_convert leaves when it returns, and
\* the transcript <safe_title>.txt
AudioFile(id) == [name |-> "audio", of |-> id]
ScriptFile == [name |-> "title.txt", of |-> 0]

\* a coroutine that has returned or raised: its frame is gone
Finished == [at |-> "done", url |-> None]

Runnable(id, at) ==
    /\ id \in DOMAIN pc
    /\ pc[id].at = at
    /\ id \notin must_cancel

\* TaskStep with one broadcast for two consecutive updates
TaskStep_one_broadcast(id, from, to, stages) ==
    /\ Runnable(id, from)
    /\ LET t1 == Update(tasks[id], stages[1])
           t2 == IF Len(stages) = 2 THEN Update(t1, stages[2]) ELSE t1
       IN  /\ tasks' = [tasks EXCEPT ![id] = t2]
           /\ tasks_file' \in save_tasks_outcomes(tasks')
           /\ subs' = broadcast_queues(subs, sse_connections, id, t2)
           /\ sse_connections' = broadcast_conns(sse_connections, id)
    /\ pc' = [pc EXCEPT ![id].at = to]
    /\ temp_dir' = IF from = "download"
                   THEN temp_dir \cup {AudioFile(id)} ELSE temp_dir
    /\ UNCHANGED <<processing_urls, active_tasks, must_cancel, next_id, disk>>

\* TaskStep with an update that is dropped when its save fails
TaskStep_needs_save(id, from, to, stages) ==
    /\ Runnable(id, from)
    /\ LET t1 == Update(tasks[id], stages[1])
           t2 == IF Len(stages) = 2 THEN Update(t1, stages[2]) ELSE t1
       IN  IF disk = "ok"
           THEN /\ tasks' = [tasks EXCEPT ![id] = t2]
                /\ tasks_file' = save_tasks(tasks')
                /\ subs' = broadcast_queues(subs, sse_connections, id, t2)
                /\ sse_connections' = broadcast_conns(sse_connections, id)
           ELSE UNCHANGED <<tasks, tasks_file, subs, sse_connections>>
    /\ pc' = [pc EXCEPT ![id].at = to]
    /\ temp_dir' = IF from = "download"
                   THEN temp_dir \cup {AudioFile(id)} ELSE temp_dir
    /\ UNCHANGED <<processing_urls, active_tasks, must_cancel, next_id, disk>>

\* one update/save/broadcast group of the coroutine: each update is saved
\* and broadcast before the next one is made
TaskStep(id, from, to, stages) ==
    /\ Runnable(id, from)
    /\ LET t1 == Update(tasks[id], stages[1])
           s1 == broadcast_queues(subs, sse_connections, id, t1)
           c1 == broadcast_conns(sse_connections, id)
           t2 == IF Len(stages) = 2 THEN Update(t1, stages[2]) ELSE t1
           s2 == IF Len(stages) = 2
                 THEN broadcast_queues(s1, c1, id, t2) ELSE s1
           c2 == IF Len(stages) = 2 THEN broadcast_conns(c1, id) ELSE c1
       IN  /\ tasks' = [tasks EXCEPT ![id] = t2]
           /\ tasks_file' \in save_tasks_outcomes(tasks')
           /\ subs' = s2
           /\ sse_connections' = c2
    /\ pc' = [pc EXCEPT ![id].at = to]
    /\ temp_dir' = IF from = "download"
                   THEN temp_dir \cup {AudioFile(id)} ELSE temp_dir
    /\ UNCHANGED <<processing_urls, active_tasks, must_cancel, next_id, disk>>

\* start of the coroutine up to `await asyncio.sleep(0.1)`
task_start(id) == TaskStep(id, "start", "sleep", <<StageDownloading>>)

\* task_parse with a sleep that is awaited over and over
task_parse_sleeps_on(id) == TaskStep(id, "sleep", "sleep", <<StageParsing>>)

\* after the sleep up to `await video_processor.download_and_convert`
task_parse(id) == TaskStep(id, "sleep", "download", <<StageParsing>>)

\* download returned, up to `await transcriber.transcribe`
task_downloaded(id) ==
    TaskStep(id, "download", "transcribe", <<StageDownloaded, StageTranscribing>>)

\* transcription returned, up to the aiofiles write
task_transcribed(id) ==
    TaskStep(id, "transcribe", "write", <<StagePreparing, StageFinalizing>>)

\* task_completed without `processing_urls.discard(url)`
task_completed_keeps_url(id) ==
    /\ Runnable(id, "write")
    /\ tasks' = [tasks EXCEPT ![id] = Update(@, TaskResult(id))]
    /\ tasks_file' \in save_tasks_outcomes(tasks')
    /\ subs' = broadcast_queues(subs, sse_connections, id, tasks'[id])
    /\ sse_connections' = broadcast_conns(sse_connections, id)
    /\ active_tasks' = active_tasks \ {id}
    /\ temp_dir' = (temp_dir \cup {ScriptFile}) \ {AudioFile(id)}
    /\ pc' = [pc EXCEPT ![id] = Finished]
    /\ UNCHANGED <<processing_urls, must_cancel, next_id, disk>>

\* the transcript file is written and the audio file removed: completed
\* state, then the bookkeeping is released
task_completed(id) ==
    /\ Runnable(id, "write")
    /\ tasks' = [tasks EXCEPT ![id] = Update(@, TaskResult(id))]
    /\ tasks_file' \in save_tasks_outcomes(tasks')
    /\ subs' = broadcast_queues(subs, sse_connections, id, tasks'[id])
    /\ sse_connections' = broadcast_conns(sse_connections, id)
    /\ processing_urls' = processing_urls \ {pc[id].url}
    /\ active_tasks' = active_tasks \ {id}
    /\ temp_dir' = (temp_dir \cup {ScriptFile}) \ {AudioFile(id)}
    /\ pc' = [pc EXCEPT ![id] = Finished]
    /\ UNCHANGED <<must_cancel, next_id, disk>>

\* task_failed with the handler reachable again after it ran (the coroutine
\* does not end with it)
task_failed_again(id) ==
    /\ \E at \in {"download", "transcribe", "write"} :
        /\ Runnable(id, at)
        /\ tasks' = [tasks EXCEPT ![id] = Update(@, TaskError(at))]
    /\ processing_urls' = processing_urls \ {pc[id].url}
    /\ active_tasks' = active_tasks \ {id}
    /\ tasks_file' \in save_tasks_outcomes(tasks')
    /\ subs' = broadcast_queues(subs, sse_connections, id, tasks'[id])
    /\ sse_connections' = broadcast_conns(sse_connections, id)
    /\ UNCHANGED <<pc, must_cancel, next_id, disk, temp_dir>>

\* task_failed without the final broadcast_task_update
task_failed_no_broadcast(id) ==
    /\ \E at \in {"download", "transcribe", "write"} :
        /\ Runnable(id, at)
        /\ tasks' = [tasks EXCEPT ![id] = Update(@, TaskError(at))]
    /\ processing_urls' = processing_urls \ {pc[id].url}
    /\ active_tasks' = active_tasks \ {id}
    /\ tasks_file' \in save_tasks_outcomes(tasks')
    /\ pc' = [pc EXCEPT ![id] = Finished]
    /\ UNCHANGED <<must_cancel, sse_connections, subs, next_id, disk, temp_dir>>

\* task_failed without `del active_tasks[task_id]`
task_failed_keeps_active(id) ==
    /\ \E at \in {"download", "transcribe", "write"} :
        /\ Runnable(id, at)
        /\ tasks' = [tasks EXCEPT ![id] = Update(@, TaskError(at))]
    /\ processing_urls' = processing_urls \ {pc[id].url}
    /\ tasks_file' \in save_tasks_outcomes(tasks')
    /\ subs' = broadcast_queues(subs, sse_connections, id, tasks'[id])
    /\ sse_connections' = broadcast_conns(sse_connections, id)
    /\ pc' = [pc EXCEPT ![id] = Finished]
    /\ UNCHANGED <<active_tasks, must_cancel, next_id, disk, temp_dir>>

\* an external call raises: the `except Exception` handler
task_failed(id) ==
    /\ \E at \in {"download", "transcribe", "write"} :
        /\ Runnable(id, at)
        /\ tasks' = [tasks EXCEPT ![id] = Update(@, TaskError(at))]
    /\ processing_urls' = processing_urls \ {pc[id].url}
    /\ active_tasks' = active_tasks \ {id}
    /\ tasks_file' \in save_tasks_outcomes(tasks')
    /\ subs' = broadcast_queues(subs, sse_connections, id, tasks'[id])
    /\ sse_connections' = broadcast_conns(sse_connections, id)
    /\ pc' = [pc EXCEPT ![id] = Finished]
    /\ UNCHANGED <<must_cancel, next_id, disk, temp_dir>>

\* task_cancelled with CancelledError caught by the handler: the handler
\* releases the url and the task entry, then raises KeyError on the deleted
\* record
task_cancelled_caught(id) ==
    /\ id \in DOMAIN pc
    /\ id \in must_cancel
    /\ pc[id].at # "done"
    /\ processing_urls' = processing_urls \ {pc[id].url}
    /\ active_tasks' = active_tasks \ {id}
    /\ pc' = [pc EXCEPT ![id] = Finished]
    /\ UNCHANGED <<tasks, must_cancel, sse_connections, subs, tasks_file, next_id, disk, temp_dir>>

\* the cancelled coroutine is resumed with CancelledError, a BaseException:
\* `except Exception` does not catch it and the coroutine ends
task_cancelled(id) ==
    /\ id \in DOMAIN pc
    /\ id \in must_cancel
    /\ pc[id].at # "done"
    /\ pc' = [pc EXCEPT ![id] = Finished]
    /\ UNCHANGED <<tasks, processing_urls, active_tasks, must_cancel,
                   sse_connections, subs, tasks_file, next_id, disk, temp_dir>>

\* ------------------------------------------------------- GET task-status
\* what get_task_status answers in the current state
get_task_status_response(task_id) ==
    IF task_id \notin DOMAIN tasks
    THEN [code |-> NotFound, detail |-> "Task not found"]
    ELSE [code |-> Ok, body |-> tasks[task_id]]

get_task_status(task_id) == UNCHANGED vars

\* ------------------------------------------------------- GET task-stream
\* the status task_stream answers with in the current state
task_stream_response(task_id) ==
    IF task_id \notin DOMAIN tasks
    THEN [code |-> NotFound, detail |-> "Task not found"]
    ELSE [code |-> Ok]

\* task_stream with the generator set up before the id is looked up
task_stream_registers_first(task_id, maxSubs) ==
    /\ Len(subs) < maxSubs
    /\ subs' = Append(subs, [at |-> "pending", task_id |-> task_id,
                             queue |-> <<>>, out |-> <<>>])
    /\ UNCHANGED <<tasks, processing_urls, active_tasks, pc, must_cancel,
                   sse_connections, tasks_file, next_id, disk, temp_dir>>

\* the handler: 404 for an unknown id, else a StreamingResponse around a
\* generator that has not started yet
task_stream(task_id, maxSubs) ==
    IF task_id \notin DOMAIN tasks
    THEN UNCHANGED vars
    ELSE /\ Len(subs) < maxSubs
         /\ subs' = Append(subs, [at |-> "pending", task_id |-> task_id,
                                  queue |-> <<>>, out |-> <<>>])
         /\ UNCHANGED <<tasks, processing_urls, active_tasks, pc, must_cancel,
                        sse_connections, tasks_file, next_id, disk, temp_dir>>

\* stream_cleanup without the `del` of a list left empty
stream_cleanup_keeps_empty(conns, task_id, s) ==
    IF task_id \in DOMAIN conns /\ s \in Range(conns[task_id])
    THEN [conns EXCEPT ![task_id] = Remove(@, s)]
    ELSE conns

\* the finally clause of event_generator
stream_cleanup(conns, task_id, s) ==
    IF task_id \in DOMAIN conns /\ s \in Range(conns[task_id])
    THEN IF Remove(conns[task_id], s) = <<>>
         THEN Del(conns, task_id)
         ELSE [conns EXCEPT ![task_id] = Remove(@, s)]
    ELSE conns

\* first run of event_generator: the queue is registered and the current
\* record (tasks.get(task_id, {})) is yielded
stream_open(s) ==
    /\ s \in DOMAIN subs
    /\ subs[s].at = "pending"
    /\ LET task_id == subs[s].task_id
           current_task == IF task_id \in DOMAIN tasks THEN tasks[task_id] ELSE <<>>
       IN  /\ sse_connections' =
                IF task_id \notin DOMAIN sse_connections
                THEN (task_id :> <<s>>) @@ sse_connections
                ELSE [sse_connections EXCEPT ![task_id] = Append(@, s)]
           /\ subs' = [subs EXCEPT ![s].at = "replayed",
                                   ![s].out = Append(@, current_task)]
    /\ UNCHANGED <<tasks, processing_urls, active_tasks, pc, must_cancel,
                   tasks_file, next_id, disk, temp_dir>>

\* the generator is resumed after a yield: after a queued update with a
\* terminal status it breaks out of the loop (and runs the finally clause),
\* in every other case it goes (back) to wait on the queue.  The queue is a
\* local of the generator and goes away with it.
stream_resume(s) ==
    /\ s \in DOMAIN subs
    /\ subs[s].at \in {"replayed", "sent", "beat"}
    /\ LET task_data == subs[s].out[Len(subs[s].out)] IN
       IF subs[s].at = "sent" /\ task_data.status \in Terminal
       THEN /\ subs' = [subs EXCEPT ![s].at = "closed", ![s].queue = <<>>]
            /\ sse_connections' =
                 stream_cleanup(sse_connections, subs[s].task_id, s)
       ELSE /\ subs' = [subs EXCEPT ![s].at = "waiting"]
            /\ UNCHANGED sse_connections
    /\ UNCHANGED <<tasks, processing_urls, active_tasks, pc, must_cancel,
                   tasks_file, next_id, disk, temp_dir>>

\* queue.get() returns an update, which is yielded
stream_next(s) ==
    /\ s \in DOMAIN subs
    /\ subs[s].at = "waiting"
    /\ subs[s].queue # <<>>
    /\ subs' = [subs EXCEPT ![s].at = "sent",
                            ![s].out = Append(@, Head(subs[s].queue)),
                            ![s].queue = Tail(@)]
    /\ UNCHANGED <<tasks, processing_urls, active_tasks, pc, must_cancel,
                   sse_connections, tasks_file, next_id, disk, temp_dir>>

NumHeartbeats(s) == Cardinality({i \in DOMAIN subs[s].out : subs[s].out[i] = Heartbeat})

\* stream_heartbeat with a timeout that fires over a queued update and
\* takes it off the queue
stream_heartbeat_takes_update(s, maxHb) ==
    /\ s \in DOMAIN subs
    /\ subs[s].at = "waiting"
    /\ NumHeartbeats(s) < maxHb
    /\ subs' = [subs EXCEPT ![s].at = "beat", ![s].out = Append(@, Heartbeat),
                            ![s].queue = IF @ = <<>> THEN @ ELSE Tail(@)]
    /\ UNCHANGED <<tasks, processing_urls, active_tasks, pc, must_cancel,
                   sse_connections, tasks_file, next_id, disk, temp_dir>>

\* wait_for times out after 30s without an update: a heartbeat is yielded
stream_heartbeat(s, maxHb) ==
    /\ s \in DOMAIN subs
    /\ subs[s].at = "waiting"
    /\ subs[s].queue = <<>>
    /\ NumHeartbeats(s) < maxHb
    /\ subs' = [subs EXCEPT ![s].at = "beat", ![s].out = Append(@, Heartbeat)]
    /\ UNCHANGED <<tasks, processing_urls, active_tasks, pc, must_cancel,
                   sse_connections, tasks_file, next_id, disk, temp_dir>>

\* the client goes away: a generator that never ran is dropped, a running
\* one is closed or cancelled at its suspension point and runs its finally
stream_disconnect(s) ==
    /\ s \in DOMAIN subs
    /\ subs[s].at # "closed"
    /\ subs' = [subs EXCEPT ![s].at = "closed", ![s].queue = <<>>]
    /\ sse_connections' =
         IF subs[s].at = "pending" THEN sse_connections
         ELSE stream_cleanup(sse_connections, subs[s].task_id, s)
    /\ UNCHANGED <<tasks, processing_urls, active_tasks, pc, must_cancel,
                   tasks_file, next_id, disk, temp_dir>>

\* ---------------------------------------------------------- DELETE task
\* delete_task without `processing_urls.discard(task_url)`
delete_task_keeps_url(task_id) ==
    IF task_id \notin DOMAIN tasks
    THEN UNCHANGED vars
    ELSE /\ must_cancel' =
              IF task_id \in active_tasks /\ pc[task_id].at # "done"
              THEN must_cancel \cup {task_id} ELSE must_cancel
         /\ active_tasks' = active_tasks \ {task_id}
         /\ tasks' = Del(tasks, task_id)
         /\ UNCHANGED <<processing_urls, pc, sse_connections, subs, tasks_file,
                        next_id, disk, temp_dir>>

\* delete_task without `task.cancel()`
delete_task_no_cancel(task_id) ==
    IF task_id \notin DOMAIN tasks
    THEN UNCHANGED vars
    ELSE /\ active_tasks' = active_tasks \ {task_id}
         /\ processing_urls' = processing_urls \ {tasks[task_id].url}
         /\ tasks' = Del(tasks, task_id)
         /\ UNCHANGED <<must_cancel, pc, sse_connections, subs, tasks_file,
                        next_id, disk, temp_dir>>

\* what delete_task answers in the current state
delete_task_response(task_id) ==
    IF task_id \notin DOMAIN tasks
    THEN [code |-> NotFound, detail |-> "Task not found"]
    ELSE [code |-> Ok, message |-> "Task has been canceled and deleted"]

delete_task(task_id) ==
    IF task_id \notin DOMAIN tasks
    THEN UNCHANGED vars
    ELSE /\ must_cancel' =
              IF task_id \in active_tasks /\ pc[task_id].at # "done"
              THEN must_cancel \cup {task_id} ELSE must_cancel
         /\ active_tasks' = active_tasks \ {task_id}
         /\ processing_urls' = processing_urls \ {tasks[task_id].url}
         /\ tasks' = Del(tasks, task_id)
         /\ UNCHANGED <<pc, sse_connections, subs, tasks_file, next_id, disk, temp_dir>>

\* ---------------------------------------------------------------- Next
TaskIds(maxJobs) == 1..maxJobs

\* submissions, the runner's steps, polls and deletions
JobNext(maxJobs) ==
    \/ \E url \in Urls : process_video(url, maxJobs)
    \/ \E id \in TaskIds(maxJobs) : task_start(id)
    \/ \E id \in TaskIds(maxJobs) : task_parse(id)
    \/ \E id \in TaskIds(maxJobs) : task_downloaded(id)
    \/ \E id \in TaskIds(maxJobs) : task_transcribed(id)
    \/ \E id \in TaskIds(maxJobs) : task_completed(id)
    \/ \E id \in TaskIds(maxJobs) : task_failed(id)
    \/ \E id \in TaskIds(maxJobs) : task_cancelled(id)
    \/ \E id \in TaskIds(maxJobs) : get_task_status(id)
    \/ \E id \in TaskIds(maxJobs) : delete_task(id)

\* the event streams
StreamNext(maxJobs, maxSubs, maxHb) ==
    \/ \E id \in TaskIds(maxJobs) : task_stream(id, maxSubs)
    \/ \E s \in 1..maxSubs : stream_open(s)
    \/ \E s \in 1..maxSubs : stream_resume(s)
    \/ \E s \in 1..maxSubs : stream_next(s)
    \/ \E s \in 1..maxSubs : stream_heartbeat(s, maxHb)
    \/ \E s \in 1..maxSubs : stream_disconnect(s)

\* the whole service
Next == JobNext(MaxJobs) \/ StreamNext(MaxJobs, MaxSubs, MaxHeartbeats)
Spec == Init /\ [][Next]_vars

\* the service with no stream request, for more jobs
RegistryNext == JobNext(RegistryMaxJobs)
RegistrySpec == Init /\ [][RegistryNext]_vars

\* the next step of the coroutine of job id, whatever it is: the event
\* loop resumes a coroutine whose sleep is over, whose external call has
\* returned or raised, or whose task was cancelled
Coroutine(id) ==
    \/ task_start(id)
    \/ task_parse(id)
    \/ task_downloaded(id)
    \/ task_transcribed(id)
    \/ task_completed(id)
    \/ task_failed(id)
    \/ task_cancelled(id)

\* the service with every coroutine resumed in the end (every sleep ends,
\* every external call returns or raises); requests come as they like
LiveMaxJobs == 2
LiveNext == JobNext(LiveMaxJobs)
LiveSpec ==
    /\ Init
    /\ [][LiveNext]_vars
    /\ \A id \in TaskIds(LiveMaxJobs) : WF_vars(Coroutine(id))

\* one job under several subscriptions
StreamMaxJobs == 1
StreamMaxSubs == 2
StreamMaxHeartbeats == 1
StreamSpecNext ==
    \/ JobNext(StreamMaxJobs)
    \/ StreamNext(StreamMaxJobs, StreamMaxSubs, StreamMaxHeartbeats)
StreamSpec == Init /\ [][StreamSpecNext]_vars

\* ------------------------------------------------------- process restart
\* A new process on the same TEMP_DIR: the module globals are built again,
\* `tasks` from the file as it is found; the coroutines, the Task objects
\* and the open connections of the old process are gone.
\* Boot with the coroutines of the old process carried over
Boot_keeps_coroutines(file) ==
    /\ tasks_file' = file
    /\ tasks' = load_tasks(file)
    /\ processing_urls' = {}
    /\ active_tasks' = {}
    /\ sse_connections' = <<>>
    /\ must_cancel' = {}
    /\ subs' = [s \in DOMAIN subs |->
                    [subs[s] EXCEPT !.at = "closed", !.queue = <<>>]]
    /\ UNCHANGED <<pc, next_id, disk, temp_dir>>

Boot(file) ==
    /\ tasks_file' = file
    /\ tasks' = load_tasks(file)
    /\ processing_urls' = {}
    /\ active_tasks' = {}
    /\ sse_connections' = <<>>
    /\ pc' = [id \in DOMAIN pc |-> Finished]
    /\ must_cancel' = {}
    /\ subs' = [s \in DOMAIN subs |->
                    [subs[s] EXCEPT !.at = "closed", !.queue = <<>>]]
    /\ UNCHANGED <<next_id, disk, temp_dir>>

\* the process stops between two handler runs and is started again
restart == Boot(tasks_file)

\* some handler or coroutine step that calls save_tasks can run
CanSave(maxJobs) ==
    \/ \E url \in Urls : ~AlreadyProcessing(url) /\ next_id <= maxJobs
    \/ \E id \in DOMAIN pc : pc[id].at # "done" /\ id \notin must_cancel

\* the process dies inside save_tasks, after open(TASKS_FILE, 'w') and
\* before the document is written out, and is started again.  (Dying before
\* the open or after the dump is `restart` before or after the step.)
crash_in_save(maxJobs) == CanSave(maxJobs) /\ Boot(Truncated)

\* ------------------------------------------------------- failing writes
\* writes to TEMP_DIR start to fail (disk full, permissions) and work again
disk_fails ==
    /\ disk = "ok"
    /\ disk' = "fails"
    /\ UNCHANGED <<tasks, processing_urls, active_tasks, pc, must_cancel,
                   sse_connections, subs, tasks_file, temp_dir, next_id>>

disk_recovers ==
    /\ disk = "fails"
    /\ disk' = "ok"
    /\ UNCHANGED <<tasks, processing_urls, active_tasks, pc, must_cancel,
                   sse_connections, subs, tasks_file, temp_dir, next_id>>

SaveFailMaxJobs == 2
SaveFailNext ==
    \/ JobNext(SaveFailMaxJobs)
    \/ disk_fails
    \/ disk_recovers
SaveFailSpec == Init /\ [][SaveFailNext]_vars

RestartMaxJobs == 2
RestartNext ==
    \/ JobNext(RestartMaxJobs)
    \/ restart
    \/ crash_in_save(RestartMaxJobs)
RestartSpec == Init /\ [][RestartNext]_vars

\* ================================================================ claims
\* the jobs for url that are in flight: status 'processing' with an active task
InFlight(url) ==
    {id \in DOMAIN tasks :
        /\ tasks[id].url = url
        /\ tasks[id].status = "processing"
        /\ id \in active_tasks}

\* some job for url has reached 'completed' or 'error'
HasTerminal(url) ==
    \E id \in DOMAIN tasks : tasks[id].url = url /\ tasks[id].status \in Terminal

\* C1: whenever a job for a URL is in flight, a submission of that URL
\* takes the branch that creates nothing and returns the id of that
\* in-flight job.
C1_DuplicateReturnsInFlightJob ==
    \A url \in Urls :
        InFlight(url) # {} =>
            /\ AlreadyProcessing(url)
            /\ process_video_response(url).task_id \in InFlight(url)

\* C2: at most one job per URL is in flight at any time.
C2_OneInFlightPerUrl ==
    \A url \in Urls : Cardinality(InFlight(url)) <= 1

\* C3: once a job for a URL is terminal and no other job for that URL is in
\* flight, a submission of the URL takes the creating branch, with an id
\* that no job has or had, and the step stores the new record and starts its
\* task.
C3_Resubmittable(url) ==
    (HasTerminal(url) /\ InFlight(url) = {}) =>
        /\ ~AlreadyProcessing(url)
        /\ process_video_response(url).task_id \notin DOMAIN tasks \cup DOMAIN pc

C3_CreatesJob(url) ==
    LET task_id == process_video_response(url).task_id IN
    (HasTerminal(url) /\ InFlight(url) = {} /\ next_id' # next_id
        /\ url \in processing_urls' \ processing_urls) =>
        /\ DOMAIN tasks' = DOMAIN tasks \cup {task_id}
        /\ tasks'[task_id] = NewTask(url)
        /\ \A id \in DOMAIN tasks : tasks'[id] = tasks[id]
        /\ task_id \in active_tasks'
        /\ pc'[task_id] = [at |-> "start", url |-> url]

C3_ResubmitAfterTerminal ==
    /\ [](\A url \in Urls : C3_Resubmittable(url))
    /\ [][\A url \in Urls : C3_CreatesJob(url)]_vars

\* C3 witness: a URL whose first job is terminal has a second, newer job in
\* flight
C3_Witness ==
    \E a, b \in DOMAIN tasks :
        /\ a < b
        /\ tasks[a].url = tasks[b].url
        /\ tasks[a].status \in Terminal
        /\ b \in InFlight(tasks[b].url)

\* a job that was created and whose record is gone
Deleted(id) == id \in DOMAIN pc /\ id \notin DOMAIN tasks

\* C4: a successful delete_task removes the record, the task entry and the
\* reservation of the job's URL, so that the URL's next submission creates a
\* job; from then on the id stays unknown: get_task_status and task_stream
\* answer 404 for it and it never returns to active_tasks.
C4_DeleteStep(id) ==
    \A url \in Urls :
        (id \in DOMAIN tasks /\ tasks[id].url = url /\ delete_task(id)) =>
            /\ id \notin DOMAIN tasks'
            /\ id \notin active_tasks'
            /\ url \notin processing_urls'
            /\ ~AlreadyProcessing(url)'
            /\ process_video_response(url)'.task_id \notin DOMAIN tasks'

C4_StaysDeleted(id) ==
    Deleted(id) =>
        /\ id \notin active_tasks
        /\ get_task_status_response(id).code = NotFound
        /\ task_stream_response(id).code = NotFound

C4_DeleteRemovesJob ==
    /\ [](\A id \in DOMAIN pc : C4_StaysDeleted(id))
    /\ [][\A id \in DOMAIN pc : C4_DeleteStep(id) /\ (Deleted(id) => Deleted(id)')]_vars

\* C4 witness: a running job was deleted and its URL was submitted again,
\* which created a newer job
C4_Witness ==
    \E a \in DOMAIN pc : \E b \in DOMAIN tasks :
        /\ Deleted(a)
        /\ a \in must_cancel
        /\ pc[a].at # "done"
        /\ a < b
        /\ tasks[b].url = pc[a].url

\* an event that is a job snapshot (not a heartbeat, not the empty dict
\* replayed for a job that is gone)
IsSnapshot(e) == "status" \in DOMAIN e

\* the queues registered for a job
QueuesOf(id) ==
    IF id \in DOMAIN sse_connections THEN Range(sse_connections[id]) ELSE {}

\* delete_task(id) runs on a job whose task is in active_tasks
CancelStep(id) == id \in DOMAIN tasks /\ id \in active_tasks /\ delete_task(id)

\* C5 (as claimed): cancelling a running job leaves the job in status 'error'
\* with a 'cancelled' error, which a poll and every open subscription get
\* next.
C5_CancelMarksFailed ==
    [][\A id \in DOMAIN pc :
        CancelStep(id) =>
            /\ id \in DOMAIN tasks'
            /\ tasks'[id].status = "error"
            /\ tasks'[id].error = "cancelled"
            /\ get_task_status_response(id)'.code = Ok
            /\ \A s \in QueuesOf(id) :
                /\ subs'[s].queue # <<>>
                /\ subs'[s].queue[Len(subs'[s].queue)] = tasks'[id]]_vars

\* C5 (amended): cancelling a running job removes its record and its task
\* entry at once and requests the cancellation of its coroutine; no state is
\* recorded or published for it: a poll answers 404 and the queue of no
\* subscription of the job grows, in that step or ever after.
C5_CancelRemovesJob ==
    /\ [][\A id \in DOMAIN pc :
            CancelStep(id) =>
                /\ Deleted(id)'
                /\ id \notin active_tasks'
                /\ id \in must_cancel'
                /\ get_task_status_response(id)'.code = NotFound
                /\ UNCHANGED <<subs, sse_connections, tasks_file>>]_vars
    /\ [][\A s \in DOMAIN subs :
            Deleted(subs[s].task_id) =>
                Len(subs'[s].queue) <= Len(subs[s].queue)]_vars

\* C5 witness: a job was cancelled after a subscription had joined it; the
\* subscription has since been sent a heartbeat and waits again
C5_Witness ==
    \E s \in DOMAIN subs :
        /\ subs[s].task_id \in must_cancel
        /\ Deleted(subs[s].task_id)
        /\ s \in QueuesOf(subs[s].task_id)
        /\ subs[s].at = "waiting"
        /\ subs[s].queue = <<>>
        /\ IsSnapshot(subs[s].out[1])
        /\ subs[s].out[Len(subs[s].out)] = Heartbeat

\* C6: every step a coroutine takes after its task was cancelled leaves the
\* job store, the snapshot file, processing_urls, active_tasks and all
\* subscriber queues as they are; the deleted record stays deleted.
C6_CancelledTaskIsInert ==
    /\ [](\A id \in must_cancel : Deleted(id))
    /\ [][\A id \in must_cancel :
            pc'[id] # pc[id] =>
                UNCHANGED <<tasks, tasks_file, processing_urls, active_tasks,
                            sse_connections, subs>>]_vars

\* C6 witness: a cancelled coroutine has taken its last step while another
\* job holds a reservation and a task entry
C6_Witness ==
    \E id \in must_cancel : \E other \in active_tasks :
        /\ pc[id].at = "done"
        /\ id < other
        /\ tasks[other].url \in processing_urls

\* C7: a record with status 'completed' or 'error' is never changed again;
\* it only disappears, and only by delete_task on its id.
C7_TerminalIsFrozen ==
    [][\A id \in DOMAIN tasks :
        tasks[id].status \in Terminal =>
            IF id \in DOMAIN tasks'
            THEN tasks'[id] = tasks[id]
            ELSE delete_task(id)]_vars

\* C7 witness: after a job became terminal, its URL was submitted again and
\* the newer job ran to its own terminal state
C7_Witness ==
    \E a, b \in DOMAIN tasks :
        /\ a < b
        /\ tasks[a].url = tasks[b].url
        /\ tasks[a].status = "error"
        /\ tasks[b].status = "completed"

\* the job snapshots of a subscription: those sent, then those queued
Stream(s) == SelectSeq(subs[s].out, IsSnapshot) \o subs[s].queue

\* C8: the job snapshots of every subscription, sent and queued, have
\* non-decreasing progress.
C8_ProgressMonotonic ==
    \A s \in DOMAIN subs :
        \A i, j \in DOMAIN Stream(s) :
            i < j => Stream(s)[i].progress <= Stream(s)[j].progress

\* C8 witness: a subscription that joined a job in mid-flight was sent its
\* failure
C8_Witness ==
    \E s \in DOMAIN subs :
        /\ Len(subs[s].out) >= 3
        /\ IsSnapshot(subs[s].out[1])
        /\ subs[s].out[1].progress = 10
        /\ IsSnapshot(subs[s].out[Len(subs[s].out)])
        /\ subs[s].out[Len(subs[s].out)].status = "error"

\* C9: in the events sent on any subscription, a snapshot with status
\* 'completed' or 'error' is the last event.
C9_TerminalIsLast ==
    \A s \in DOMAIN subs :
        \A i \in DOMAIN subs[s].out :
            (IsSnapshot(subs[s].out[i]) /\ subs[s].out[i].status \in Terminal)
                => i = Len(subs[s].out)

\* the records process_video_task gives a job, in order, from the stage
\* list of the code
Stages ==
    <<StageDownloading, StageParsing, StageDownloaded, StageTranscribing,
      StagePreparing, StageFinalizing>>

RECURSIVE StageRecord(_, _)
StageRecord(url, k) ==
    IF k = 0 THEN NewTask(url) ELSE Update(StageRecord(url, k - 1), Stages[k])

\* the number of stage updates behind a record
StageOf(rec) ==
    IF rec.status = "completed" THEN Len(Stages)
    ELSE CHOOSE k \in 0..Len(Stages) :
            StageRecord(rec.url, k).progress = rec.progress

\* the external call a coroutine awaits once it has made k stage updates
AwaitedAfter(k) ==
    CASE k = 2 -> "download" [] k = 4 -> "transcribe" [] k = 6 -> "write"
      [] OTHER -> "none"

\* every record the job id has had up to its current one
History(id, rec) ==
    LET k == StageOf(rec)
        staged == [i \in 1..(k + 1) |-> StageRecord(rec.url, i - 1)]
    IN  CASE rec.status = "processing" -> staged
          [] rec.status = "completed" ->
                Append(staged, Update(staged[k + 1], TaskResult(id)))
          [] rec.status = "error" ->
                Append(staged, Update(staged[k + 1], TaskError(AwaitedAfter(k))))

\* C10: the snapshots of a running subscription (sent, then queued) are
\* exactly the records its job has had from the one current when the
\* subscription joined up to the current one, each once and in order.
C10_ReplayThenEveryUpdate ==
    \A s \in DOMAIN subs :
        (subs[s].at \notin {"pending", "closed"} /\ subs[s].task_id \in DOMAIN tasks) =>
            LET h == History(subs[s].task_id, tasks[subs[s].task_id])
            IN  \E k \in 1..Len(h) : Stream(s) = SubSeq(h, k, Len(h))

\* C10 witness: a subscription that joined at progress 15 has been sent the
\* five later records up to the completed one
C10_Witness ==
    \E s \in DOMAIN subs :
        /\ subs[s].at = "sent"
        /\ Len(subs[s].out) = 6
        /\ \A i \in 1..6 : IsSnapshot(subs[s].out[i])
        /\ subs[s].out[1].progress = 15
        /\ subs[s].out[6].status = "completed"

\* a terminal snapshot is among the events already sent on subscription s
SentTerminal(s) ==
    \E i \in DOMAIN subs[s].out :
        IsSnapshot(subs[s].out[i]) /\ subs[s].out[i].status \in Terminal

\* C11: once a terminal snapshot has been sent on a subscription, replayed
\* or live, the generator does not go back to wait on its queue: it is at
\* the yield of that snapshot or has ended.
C11_ClosesAfterTerminal ==
    \A s \in DOMAIN subs :
        SentTerminal(s) => subs[s].at \in {"replayed", "sent", "closed"}

\* C12: between any two handler or coroutine runs, so after every creation,
\* update and removal has returned, the snapshot file reads back as exactly
\* the in-memory store.
C12_SnapshotEqualsStore == load_tasks(tasks_file) = tasks

\* C13: a restart loads a store equal to the store the stopped process had.
C13_RestartReloadsStore == [][restart => tasks' = tasks]_vars

\* C14: a process that dies inside save_tasks leaves a file from which the
\* next load_tasks reads every record the file held before, unchanged.
C14_CrashKeepsPersisted ==
    [][crash_in_save(RestartMaxJobs) =>
        \A id \in DOMAIN load_tasks(tasks_file) :
            /\ id \in DOMAIN load_tasks(tasks_file')
            /\ load_tasks(tasks_file')[id] = load_tasks(tasks_file)[id]]_vars

\* the coroutine of job id, suspended in an external call and not
\* cancelled, ends in this step without completing the job
FailStep(id) ==
    /\ id \in DOMAIN tasks
    /\ pc[id].at \in {"download", "transcribe", "write"}
    /\ id \notin must_cancel
    /\ pc'[id] = Finished
    /\ ~(id \in DOMAIN tasks' /\ tasks'[id].status = "completed")

\* C15: when the external call a job awaits raises, the job ends in status
\* 'error' with the text of the exception in `error` and its progress as it
\* was; the reservation of its URL and its task entry are gone, the file
\* holds the error record and the queue of every subscriber of the job has
\* received it.
C15_FailureEndsInError ==
    [][\A id \in DOMAIN pc :
        FailStep(id) =>
            /\ id \in DOMAIN tasks'
            /\ tasks'[id].status = "error"
            /\ tasks'[id].error = ErrorText(pc[id].at)
            /\ tasks'[id].progress = tasks[id].progress
            /\ pc[id].url \notin processing_urls'
            /\ id \notin active_tasks'
            /\ load_tasks(tasks_file')[id] = tasks'[id]
            /\ \A s \in QueuesOf(id) :
                    subs'[s].queue = Append(subs[s].queue, tasks'[id])]_vars

\* C15 witness: a transcription failed under a subscription, which was
\* sent the error record with the progress of the transcription stage
C15_Witness ==
    \E s \in DOMAIN subs :
        /\ subs[s].at = "sent"
        /\ subs[s].task_id \in DOMAIN tasks
        /\ Len(subs[s].out) >= 2
        /\ subs[s].out[Len(subs[s].out)] = tasks[subs[s].task_id]
        /\ tasks[subs[s].task_id].status = "error"
        /\ tasks[subs[s].task_id].error = "Transcription failed"
        /\ tasks[subs[s].task_id].progress = 40
        /\ load_tasks(tasks_file) = tasks

\* C16: a record in status 'processing' has neither a transcript nor an
\* error; a 'completed' record has its transcript and the path of its file
\* and no error; an 'error' record has an error text and no transcript.
C16_StatusFieldsAgree ==
    \A id \in DOMAIN tasks :
        LET t == tasks[id] IN
        /\ t.status = "processing" => t.script = None /\ t.error = None
        /\ t.status = "completed" =>
                /\ t.script # None
                /\ "script_path" \in DOMAIN t
                /\ t.error = None
        /\ t.status = "error" => t.error # None /\ t.script = None

\* C16 witness: the store holds a completed job, and a failed job that had
\* its download done
C16_Witness ==
    \E a, b \in DOMAIN tasks :
        /\ tasks[a].status = "completed"
        /\ tasks[b].status = "error"
        /\ tasks[b].progress >= 40

\* C17: for an id that is not in the store, get_task_status, task_stream
\* and delete_task answer 404, and a run of any of them changes nothing:
\* not the store, the reservations, the task entries, the subscriber table
\* and queues, nor the file.
C17_UnknownIdChangesNothing ==
    /\ [](\A id \in TaskIds(MaxJobs) :
            id \notin DOMAIN tasks =>
                /\ get_task_status_response(id).code = NotFound
                /\ task_stream_response(id).code = NotFound
                /\ delete_task_response(id).code = NotFound)
    /\ [][\A id \in TaskIds(MaxJobs) :
            (/\ id \notin DOMAIN tasks
             /\ \/ get_task_status(id)
                \/ task_stream(id, MaxSubs)
                \/ delete_task(id))
            => UNCHANGED vars]_vars

\* C17 witness: one id is unknown (its job was deleted) while another job
\* is in flight with a registered subscriber and a saved record
C17_Witness ==
    \E a \in TaskIds(MaxJobs) : \E b \in active_tasks :
        /\ Deleted(a)
        /\ delete_task_response(a).code = NotFound
        /\ tasks[b].url \in processing_urls
        /\ QueuesOf(b) # {}
        /\ b \in DOMAIN load_tasks(tasks_file)

\* some job of the store has a coroutine that has not ended
JobRunning ==
    \E id \in DOMAIN tasks : id \in DOMAIN pc /\ pc[id].at # "done"

\* a step of a request handler (no coroutine moves) that removes entries
\* of TEMP_DIR: the cleanup at the start of process_video
CleanupStep ==
    /\ \A id \in DOMAIN pc : pc'[id] = pc[id]
    /\ temp_dir \ temp_dir' # {}

C19_ReservedIffInFlight ==
    \A url \in Urls : url \in processing_urls <=> InFlight(url) # {}

\* the direction of C19 that holds: a reserved URL has a job in flight
ReservedHasInFlight ==
    \A url \in processing_urls : InFlight(url) # {}

\* the coroutines that were started and have neither ended nor been
\* cancelled
LiveTasks == {id \in DOMAIN pc : pc[id].at # "done" /\ id \notin must_cancel}

\* C20: active_tasks is exactly the set of jobs whose coroutine was started
\* and has neither ended nor been cancelled; each of them has a record in
\* status 'processing'.  The step that creates a record puts its id into
\* active_tasks and starts its coroutine, and the step in which a coroutine
\* ends leaves its id out of active_tasks.
C20_ActiveTasksAreLiveTasks ==
    /\ [](active_tasks = LiveTasks)
    /\ [](\A id \in active_tasks :
            id \in DOMAIN tasks /\ tasks[id].status = "processing")
    /\ [][\A id \in DOMAIN tasks' \ DOMAIN tasks :
            id \in active_tasks' /\ pc'[id].at = "start"]_vars
    /\ [][\A id \in DOMAIN pc :
            (pc[id].at # "done" /\ pc'[id].at = "done") =>
                id \notin active_tasks']_vars

\* C20 witness: of three jobs one has completed, one was cancelled and its
\* coroutine has not been resumed yet, and the newest is in active_tasks
C20_Witness ==
    \E a, b \in DOMAIN pc : \E c \in active_tasks :
        /\ a \in DOMAIN tasks /\ tasks[a].status = "completed"
        /\ b \in must_cancel /\ pc[b].at # "done"
        /\ c \notin {a, b}

\* a record in status 'processing' without a task entry: within one run
\* of the process every 'processing' record has its entry (C20), so this
\* is a record that a restart loaded
Stale(id) ==
    /\ id \in DOMAIN tasks
    /\ tasks[id].status = "processing"
    /\ id \notin active_tasks

\* C21: a restart leaves processing_urls and active_tasks empty; from then
\* on, as long as the process runs, a reloaded 'processing' record is not
\* changed, gets no task entry and no running coroutine, and leaves the
\* store only by delete_task on its id.
C21_StaleJobsAreFrozen ==
    /\ [][restart => processing_urls' = {} /\ active_tasks' = {}]_vars
    /\ [](\A id \in DOMAIN tasks : Stale(id) => pc[id].at = "done")
    /\ [][~crash_in_save(RestartMaxJobs) =>
            \A id \in DOMAIN tasks :
                Stale(id) =>
                    IF id \in DOMAIN tasks'
                    THEN tasks'[id] = tasks[id] /\ Stale(id)'
                    ELSE delete_task(id)]_vars

\* C21 witness: a job reloaded as 'processing' is unchanged after a newer
\* job for the same URL was submitted and ran to completion
C21_Witness ==
    \E a, b \in DOMAIN tasks :
        /\ a < b
        /\ Stale(a)
        /\ tasks[a].progress = 15
        /\ tasks[b].url = tasks[a].url
        /\ tasks[b].status = "completed"

\* a step that adds or updates a record (and so calls save_tasks)
SavingStep == tasks' # tasks /\ DOMAIN tasks \subseteq DOMAIN tasks'

\* C22: while writes fail, a submission still stores its record and starts
\* its task, and every step of a job's coroutine still changes the record:
\* the progress goes up, or the job completes, or it fails at an external
\* call (never because of the write).  A step that adds or updates a record
\* while writes succeed leaves a file that reads back as the whole store.
C22_SaveFailureIsNotFatal ==
    /\ [][(disk = "fails" /\ next_id' # next_id) =>
            /\ next_id \in DOMAIN tasks' /\ tasks'[next_id].status = "processing"
            /\ next_id \in active_tasks'
            /\ pc'[next_id].at = "start"]_vars
    /\ [][\A id \in DOMAIN pc :
            (disk = "fails" /\ id \notin must_cancel /\ pc'[id] # pc[id]) =>
                /\ id \in DOMAIN tasks /\ id \in DOMAIN tasks'
                /\ tasks'[id] # tasks[id]
                /\ IF tasks'[id].status = "error"
                   THEN pc[id].at \in {"download", "transcribe", "write"}
                   ELSE tasks'[id].progress > tasks[id].progress]_vars
    /\ [][(disk = "ok" /\ SavingStep) => load_tasks(tasks_file') = tasks']_vars

\* C22 witness: no write has ever succeeded, and of two jobs one has
\* completed and one has failed
C22_Witness ==
    /\ tasks_file.state # "written"
    /\ disk = "fails"
    /\ \E a, b \in DOMAIN tasks :
        tasks[a].status = "completed" /\ tasks[b].status = "error"

\* subscription s is sent a heartbeat in this step
HeartbeatStep(s) ==
    /\ Len(subs'[s].out) = Len(subs[s].out) + 1
    /\ subs'[s].out[Len(subs'[s].out)] = Heartbeat

\* C23: a heartbeat is sent only to a subscription that waits on an empty
\* queue, and it is not a job snapshot.  The step leaves the generator
\* running and registered and changes neither the job store nor the file,
\* the reservations, the task entries or any queue; resumed after the
\* heartbeat, the generator waits on its queue again.  The snapshots of a
\* subscription that has been sent heartbeats are still the records of its
\* job from the replayed one on, each once and in order.
C23_HeartbeatIsInert ==
    /\ [][\A s \in DOMAIN subs :
            HeartbeatStep(s) =>
                /\ ~IsSnapshot(Heartbeat)
                /\ subs[s].at = "waiting" /\ subs[s].queue = <<>>
                /\ subs'[s].at = "beat"
                /\ s \in QueuesOf(subs[s].task_id)'
                /\ \A o \in DOMAIN subs : subs'[o].queue = subs[o].queue
                /\ UNCHANGED <<tasks, tasks_file, processing_urls,
                               active_tasks, pc, sse_connections>>]_vars
    /\ [][\A s \in DOMAIN subs :
            (subs[s].at = "beat" /\ stream_resume(s)) =>
                /\ subs'[s].at = "waiting"
                /\ s \in QueuesOf(subs[s].task_id)']_vars
    /\ [](\A s \in DOMAIN subs :
            (/\ subs[s].at \notin {"pending", "closed"}
             /\ NumHeartbeats(s) > 0
             /\ subs[s].task_id \in DOMAIN tasks) =>
                LET h == History(subs[s].task_id, tasks[subs[s].task_id])
                    n == Len(Stream(s))
                IN  n <= Len(h) /\ Stream(s) = SubSeq(h, Len(h) - n + 1, Len(h)))

\* C23 witness: a subscription was sent a snapshot, a heartbeat, further
\* snapshots and at last the completed one
C23_Witness ==
    \E s \in DOMAIN subs :
        /\ Len(subs[s].out) >= 4
        /\ IsSnapshot(subs[s].out[1])
        /\ subs[s].out[2] = Heartbeat
        /\ IsSnapshot(subs[s].out[Len(subs[s].out)])
        /\ subs[s].out[Len(subs[s].out)].status = "completed"

\* C24: the subscriber table holds, for each job id in it, a non-empty
\* list of queues, each once, and every queue in it belongs to a generator
\* of that job that is running; a generator that has ended (after a
\* terminal snapshot, or closed or cancelled on a disconnect or an error)
\* or has not started has no queue in the table.
C24_TableHoldsRunningStreams ==
    /\ \A id \in DOMAIN sse_connections :
        /\ sse_connections[id] # <<>>
        /\ \A i, j \in DOMAIN sse_connections[id] :
                sse_connections[id][i] = sse_connections[id][j] => i = j
        /\ \A s \in Range(sse_connections[id]) :
                /\ s \in DOMAIN subs
                /\ subs[s].task_id = id
                /\ subs[s].at \notin {"pending", "closed"}
    /\ \A s \in DOMAIN subs :
        subs[s].at \notin {"pending", "closed"} => s \in QueuesOf(subs[s].task_id)

\* C24 witness: of two subscriptions of a job, the first has ended after
\* the terminal snapshot and the second is still registered
C24_Witness ==
    \E s, o \in DOMAIN subs :
        /\ s < o
        /\ subs[s].task_id = subs[o].task_id
        /\ subs[s].at = "closed"
        /\ SentTerminal(s)
        /\ Len(subs[s].out) >= 2
        /\ sse_connections = (subs[o].task_id :> <<o>>)

\* the values the code gives to `progress` and to `status`
ProgressValues == {0, 10, 15, 35, 40, 55, 85, 100}
StatusValues == {"processing", "completed", "error"}

\* C25: every record has a progress among 0, 10, 15, 35, 40, 55, 85, 100
\* and a status among 'processing', 'completed', 'error'; its progress is
\* 100 exactly when its status is 'completed'.
C25_ProgressAndStatusValues ==
    \A id \in DOMAIN tasks :
        /\ tasks[id].progress \in ProgressValues
        /\ tasks[id].status \in StatusValues
        /\ tasks[id].progress = 100 <=> tasks[id].status = "completed"
        /\ tasks[id].status = "error" => tasks[id].progress < 100

\* C25 witness: the store holds a completed job, a job that failed at the
\* file write and a job in its first stage
C25_Witness ==
    \E a, b, c \in DOMAIN tasks :
        /\ tasks[a].status = "completed" /\ tasks[a].progress = 100
        /\ tasks[b].status = "error" /\ tasks[b].progress = 85
        /\ tasks[c].status = "processing" /\ tasks[c].progress = 10

\* job id has reached 'completed' or 'error' or has been deleted
Settled(id) == id \notin DOMAIN tasks \/ tasks[id].status \in Terminal

\* C26: every job that was created is in the end completed, failed or
\* deleted; whenever that is so for all jobs created so far, active_tasks
\* and processing_urls are empty.
C26_EveryJobEnds ==
    /\ \A id \in TaskIds(LiveMaxJobs) : (id \in DOMAIN pc) ~> Settled(id)
    /\ []((\A id \in DOMAIN pc : Settled(id)) =>
            active_tasks = {} /\ processing_urls = {})

\* C26 witness: two jobs were created; one was cancelled and deleted in
\* mid-flight and its coroutine has ended, the other has completed, and
\* both registries are empty
C26_Witness ==
    \E a, b \in DOMAIN pc :
        /\ Deleted(a) /\ a \in must_cancel /\ pc[a].at = "done"
        /\ b \in DOMAIN tasks /\ tasks[b].status = "completed"
        /\ active_tasks = {} /\ processing_urls = {}

====
